---- MODULE Spec2Model ----
(***************************************************************************)
(* Model of Zhele::Usb::DeviceBase (USB device controller, endpoint-0      *)
(* control-transfer engine) and of the register wrappers of ioreg.h.       *)
(*                                                                         *)
(* The program state is the USB peripheral's registers, the endpoint-0     *)
(* register and buffers, TempAddressStorage and the interrupt controller.  *)
(* Each handler (Enable, CommonHandler with the Reset and Handler it       *)
(* calls) is one action; the peripheral's own events (SETUP / OUT / IN     *)
(* completion, bus reset) are the environment's actions.  The order of     *)
(* the calls and register writes made inside one handler invocation is     *)
(* kept in the variable calls.                                             *)
(***************************************************************************)
EXTENDS Integers, Sequences, FiniteSets, TLC

(***************************************************************************)
(* Bounds of the model.                                                    *)
(***************************************************************************)
\* host-requested lengths within LenSlack of the device descriptor's size
\* are enumerated (with 0..3, 64 and 65535)
LenSlack == 1

(***************************************************************************)
(* Program constants.                                                      *)
(***************************************************************************)
USB_DADDR_EF == 128
USB_DADDR_ADD == 127
DeviceDescriptorSize == 18
\* uint8_t temp[64]: the scratch buffer of the configuration descriptor
ScratchCapacity == 64

\* StandartRequestCode
GetStatus == 0
ClearFeature == 1
SetAddress == 5
GetDescriptor == 6
GetConfiguration == 8
SetConfiguration == 9

\* GetDescriptorParameter (descriptor type in the high byte of wValue)
DeviceDescriptorParam == 256
ConfigurationDescriptorParam == 512
StringDescriptorParam == 768
HidReportDescriptorParam == 8704

\* DescriptorType::Device
DescriptorTypeDevice == 1

\* USB_CNTR_CTRM | USB_CNTR_RESETM, as the set of the enabled interrupt masks
CntrBaseline == {"CTRM", "RESETM"}
\* CNTR after a hardware power-up: force-reset and power-down
CntrPowerUp == {"FRES", "PDWN"}

(***************************************************************************)
(* Template parameters of DeviceBase: the device instantiations modelled.  *)
(***************************************************************************)
DeviceInstances ==
    { [UsbVersion |-> 512, Class |-> 0, SubClass |-> 0, Protocol |-> 0,
       MaxPacketSize |-> 64, VendorId |-> 4660, ProductId |-> 22136,
       DeviceReleaseNumber |-> 256, NumConfigurations |-> 1,
       ConfigDescriptorSize |-> 34, HidReportSize |-> 20],
      [UsbVersion |-> 512, Class |-> 239, SubClass |-> 2, Protocol |-> 1,
       MaxPacketSize |-> 64, VendorId |-> 1155, ProductId |-> 22336,
       DeviceReleaseNumber |-> 512, NumConfigurations |-> 1,
       ConfigDescriptorSize |-> 73, HidReportSize |-> 20],
      [UsbVersion |-> 272, Class |-> 255, SubClass |-> 1, Protocol |-> 2,
       MaxPacketSize |-> 8, VendorId |-> 1155, ProductId |-> 22289,
       DeviceReleaseNumber |-> 515, NumConfigurations |-> 2,
       ConfigDescriptorSize |-> 64, HidReportSize |-> 3] }

(***************************************************************************)
(* SETUP packets the host may send.                                        *)
(***************************************************************************)
Packet(t, r, v, l) == [Type |-> t, Request |-> r, Value |-> v, Length |-> l]

\* wValue of the SetAddress requests: 0, two addresses, a value with bit 7
\* set and a value wider than 8 bits
AddrValues == {0, 5, 127, 133, 256}

\* the requests of the control-transfer protocol
ProtocolPackets ==
    { Packet("Standard", SetAddress, v, 0) : v \in AddrValues }
    \cup { Packet("Standard", GetStatus, 0, 2),
           Packet("Standard", GetDescriptor, DeviceDescriptorParam, 8),
           Packet("Standard", GetDescriptor, StringDescriptorParam, 8),
           Packet("Standard", SetConfiguration, 1, 0),
           Packet("Standard", ClearFeature, 0, 0),
           Packet("Standard", GetConfiguration, 0, 1),
           Packet("Vendor", SetAddress, 7, 0),
           Packet("Vendor", 32, 7, 0) }

\* the requests answered with a payload, over the requested lengths
ReqLengths ==
    {0, 1, 2, 3, 64, 65535}
    \cup (DeviceDescriptorSize - LenSlack .. DeviceDescriptorSize + LenSlack)

DescriptorPackets ==
    { Packet("Standard", GetStatus, 0, l) : l \in {0, 1, 2, 3} }
    \cup { Packet("Standard", GetDescriptor, v, l) :
              v \in {DeviceDescriptorParam, ConfigurationDescriptorParam,
                     HidReportDescriptorParam},
              l \in ReqLengths }
    \cup { Packet("Standard", GetDescriptor, v, l) :
              v \in {StringDescriptorParam, DeviceDescriptorParam + 1},
              l \in {0, 64} }

NoPacket == Packet("None", 255, 0, 0)

VARIABLES
    dev,                \* template parameters of the instantiation
    regs,               \* _Regs(): CNTR, ISTR (RESET flag), BTABLE, DADDR
    ep0,                \* endpoint 0: register flags, statuses, buffers
    TempAddressStorage, \* uint8_t DeviceBase::TempAddressStorage
    ep1Ctr,             \* a transfer-complete is pending on another endpoint
    sys,                \* clock, buffer manager, interrupt controller
    calls,              \* calls and writes of the last handler invocation
    hist,               \* history of the control transfers (for the claims)
    io                  \* a register class under use: its memory and reads

deviceVars == <<dev, regs, ep0, TempAddressStorage, ep1Ctr, sys, calls, hist>>

vars == <<dev, regs, ep0, TempAddressStorage, ep1Ctr, sys, calls, hist, io>>

(***************************************************************************)
(* The machine state handled by the operators below: one record.           *)
(***************************************************************************)
Machine ==
    [dev |-> dev, regs |-> regs, ep0 |-> ep0, Temp |-> TempAddressStorage,
     ep1Ctr |-> ep1Ctr, sys |-> sys, calls |-> calls, hist |-> hist]

Install(m) ==
    /\ dev' = m.dev
    /\ regs' = m.regs
    /\ ep0' = m.ep0
    /\ TempAddressStorage' = m.Temp
    /\ ep1Ctr' = m.ep1Ctr
    /\ sys' = m.sys
    /\ calls' = m.calls
    /\ hist' = m.hist
    /\ io' = io

Call(m, e) == [m EXCEPT !.calls = Append(@, e)]

Min(a, b) == IF a < b THEN a ELSE b

(***************************************************************************)
(* Register wrappers: NullReg, IoReg, IoBitfield, IO_BITFIELD_WRAPPER.     *)
(* The register is an unsigned char; the operands of the C++ operators are *)
(* promoted to int, and a store converts the result back (modulo 2^8).     *)
(***************************************************************************)
\* number of bits of unsigned char, the default _DataType
RegWidth == 8

RegMax == 2^RegWidth - 1

\* bit i of the int x in two's complement (\div and % round down)
Bit(x, i) == (x \div 2^i) % 2

\* bits of an operand that is not negative: register contents, arguments,
\* masks and fields shifted to their place are all below 2^RegWidth
WorkBits == RegWidth

RECURSIVE FromBits(_, _)
FromBits(b, n) ==
    IF n = 0 THEN 0 ELSE FromBits(b, n - 1) + b[n - 1] * 2^(n - 1)

\* a & b, a | b, a ^ b for operands of which one is not negative
IntAnd(a, b) ==
    FromBits([i \in 0 .. WorkBits - 1 |-> Bit(a, i) * Bit(b, i)], WorkBits)

IntOr(a, b) ==
    FromBits([i \in 0 .. WorkBits - 1 |->
                 Bit(a, i) + Bit(b, i) - Bit(a, i) * Bit(b, i)], WorkBits)

IntXor(a, b) ==
    FromBits([i \in 0 .. WorkBits - 1 |-> (Bit(a, i) + Bit(b, i)) % 2],
             WorkBits)

\* ~a
IntNot(a) == -a - 1

\* a << n and a >> n
Shl(a, n) == a * 2^n

Shr(a, n) == a \div 2^n

\* conversion of an int to the unsigned char register type
Store(x) == x % 2^RegWidth

\* static_cast<DataT>(x) of the macro's DATA_TYPE: bool or the register type
ToDataT(dt, x) == IF dt = "bool" THEN (IF x # 0 THEN 1 ELSE 0) ELSE Store(x)

\* NullReg: no storage behind it
\* a NullReg read that returns the last written data
NullRegGet_ReadsWritten(r) == r.arg

NullRegGet(r) == 0

NullRegSet(r, value) == r

NullRegOr(r, value) == r

NullRegAnd(r, value) == r

NullRegXor(r, value) == r

NullRegAndOr(r, andMask, orMask) == r

NullRegIsBitSet(r, bit) == FALSE

NullRegIsBitClear(r, bit) == TRUE

\* IoReg: Value() is the memory at _RegAddr
IoRegGet(r) == r.reg

IoRegSet(r, value) == [r EXCEPT !.reg = Store(value)]

IoRegOr(r, value) == [r EXCEPT !.reg = Store(IntOr(r.reg, value))]

IoRegAnd(r, value) == [r EXCEPT !.reg = Store(IntAnd(r.reg, value))]

IoRegXor(r, value) == [r EXCEPT !.reg = Store(IntXor(r.reg, value))]

IoRegAndOr(r, andMask, orMask) ==
    [r EXCEPT !.reg = Store(IntOr(IntAnd(r.reg, andMask), orMask))]

IoRegBitIsSet(r, bit) == IntAnd(r.reg, Shl(1, bit)) # 0

IoRegBitIsClear(r, bit) == ~(IntAnd(r.reg, Shl(1, bit)) # 0)

\* IoBitfield: Mask = ((DataT(1u) << _BitfieldLength) - 1)
IoBitfieldMask(r) == Store(Shl(1, r.len) - 1)

IoBitfieldGet(r) == Store(IntAnd(Shr(r.reg, r.off), IoBitfieldMask(r)))

\* a Set that does not clear the field before it writes it
IoBitfieldSet_NoClear(r, value) ==
    [r EXCEPT !.reg =
        Store(IntOr(r.reg, Shl(IntAnd(value, IoBitfieldMask(r)), r.off)))]

IoBitfieldSet(r, value) ==
    [r EXCEPT !.reg =
        Store(IntOr(IntAnd(r.reg, IntNot(Shl(IoBitfieldMask(r), r.off))),
                    Shl(IntAnd(value, IoBitfieldMask(r)), r.off)))]

\* IO_BITFIELD_WRAPPER: Mask = ((RegT(1u) << BITFIELD_LENGTH) - 1)
IO_BITFIELD_WRAPPER_Mask(r) == Store(Shl(1, r.len) - 1)

IO_BITFIELD_WRAPPER_Get(r) ==
    ToDataT(r.dt, IntAnd(Shr(r.reg, r.off), IO_BITFIELD_WRAPPER_Mask(r)))

IO_BITFIELD_WRAPPER_Set(r, value) ==
    [r EXCEPT !.reg =
        Store(IntOr(IntAnd(r.reg,
                           IntNot(Shl(IO_BITFIELD_WRAPPER_Mask(r), r.off))),
                    Shl(IntAnd(Store(value), IO_BITFIELD_WRAPPER_Mask(r)),
                        r.off)))]

\* no read made since the last write
NoRead == [what |-> "none", bit |-> 0, result |-> 0]

\* no register class in use
IoIdle == [kind |-> "none", dt |-> "uint", off |-> 0, len |-> 0, reg |-> 0,
           before |-> 0, arg |-> 0, same |-> FALSE, last |-> "none",
           seen |-> NoRead]

\* register contents and arguments tried: all bits clear, all set, the lowest,
\* the highest, the low half, and the two alternating patterns
OddBits == FromBits([i \in 0 .. RegWidth - 1 |-> i % 2], RegWidth)

EvenBits == FromBits([i \in 0 .. RegWidth - 1 |-> (i + 1) % 2], RegWidth)

Samples ==
    { 0, 1, RegMax, 2^(RegWidth - 1), 2^(RegWidth \div 2) - 1,
      OddBits, EvenBits }

\* the contents and arguments tried on an IoReg
Patterns == {0, 1, RegMax, OddBits, EvenBits}

BitfieldKinds == {"IoBitfield", "IO_BITFIELD_WRAPPER"}

\* the instantiations tried, each with the initial content of its register
RegisterStarts ==
    { [IoIdle EXCEPT !.kind = "NullReg"] }
    \cup { [IoIdle EXCEPT !.kind = "IoReg", !.reg = c] : c \in Patterns }
    \cup UNION { { [IoIdle EXCEPT !.kind = f[1], !.dt = f[2], !.off = o,
                                  !.len = l, !.reg = c, !.before = c] :
                      f \in { <<"IoBitfield", "uint">>,
                              <<"IO_BITFIELD_WRAPPER", "uint">>,
                              <<"IO_BITFIELD_WRAPPER", "bool">> },
                      l \in 0 .. RegWidth - o, c \in Samples } :
                  o \in 0 .. RegWidth - 1 }


(***************************************************************************)
(* DeviceDescriptor and DeviceBase::FillDescriptor.                        *)
(***************************************************************************)
\* a uint16_t field of a packed struct, as laid out in memory (little-endian)
LE16(v) == <<v % 256, (v \div 256) % 256>>

\* struct DeviceDescriptor with its default member initializers
DeviceDescriptor ==
    [Length |-> 18, Type |-> DescriptorTypeDevice, UsbVersion |-> 0,
     Class |-> 0, SubClass |-> 0, Protocol |-> 0, MaxPacketSize |-> 0,
     VendorId |-> 0, ProductId |-> 0, DeviceReleaseNumber |-> 0,
     ManufacturerStringIndex |-> 0, ProductStringIndex |-> 0,
     SerialNumberStringIndex |-> 0, ConfigurationsCount |-> 0]

\* the bytes of a DeviceDescriptor object (#pragma pack(1), declaration order)
DescriptorBytes(d) ==
    <<d.Length % 256, d.Type % 256>> \o LE16(d.UsbVersion)
    \o <<d.Class % 256, d.SubClass % 256, d.Protocol % 256,
         d.MaxPacketSize % 256>>
    \o LE16(d.VendorId) \o LE16(d.ProductId) \o LE16(d.DeviceReleaseNumber)
    \o <<d.ManufacturerStringIndex % 256, d.ProductStringIndex % 256,
         d.SerialNumberStringIndex % 256, d.ConfigurationsCount % 256>>

\* FillDescriptor with the vendor and product ids exchanged
FillDescriptor_IdsSwapped(p) ==
    [DeviceDescriptor EXCEPT
        !.UsbVersion = p.UsbVersion,
        !.Class = p.Class,
        !.SubClass = p.SubClass,
        !.Protocol = p.Protocol,
        !.MaxPacketSize = p.MaxPacketSize,
        !.VendorId = p.ProductId,
        !.ProductId = p.VendorId,
        !.DeviceReleaseNumber = p.DeviceReleaseNumber,
        !.ConfigurationsCount = p.NumConfigurations]

FillDescriptor(p) ==
    [DeviceDescriptor EXCEPT
        !.UsbVersion = p.UsbVersion,
        !.Class = p.Class,
        !.SubClass = p.SubClass,
        !.Protocol = p.Protocol,
        !.MaxPacketSize = p.MaxPacketSize,
        !.VendorId = p.VendorId,
        !.ProductId = p.ProductId,
        !.DeviceReleaseNumber = p.DeviceReleaseNumber,
        !.ConfigurationsCount = p.NumConfigurations]

\* what the first configuration's FillDescriptor leaves in the scratch
\* buffer (an opaque byte stream of the size it returns)
ConfigurationDescriptorBytes(p) ==
    [i \in 1 .. p.ConfigDescriptorSize |->
        IF i = 1 THEN 9 ELSE IF i = 2 THEN 2
        ELSE IF i = 3 THEN p.ConfigDescriptorSize % 256
        ELSE IF i = 4 THEN (p.ConfigDescriptorSize \div 256) % 256
        ELSE (i * 7) % 256]

\* uint8_t temp[64] after FillDescriptor composed into it: the array holds
\* at most ScratchCapacity bytes of the composed descriptor
ScratchBuffer(p) ==
    SubSeq(ConfigurationDescriptorBytes(p), 1,
           Min(p.ConfigDescriptorSize, ScratchCapacity))

\* HidReport::Data of the first configuration (an opaque blob)
HidReportData(p) == [i \in 1 .. p.HidReportSize |-> (i * 11 + 5) % 256]

(***************************************************************************)
(* Endpoint 0 (_Ep0): the operations DeviceBase calls on its base class.   *)
(***************************************************************************)
Op(name, arg) == [op |-> name, arg |-> arg]

ClearCtrRx(m) == Call([m EXCEPT !.ep0.CTR_RX = FALSE], Op("ClearCtrRx", 0))

ClearCtrTx(m) == Call([m EXCEPT !.ep0.CTR_TX = FALSE], Op("ClearCtrTx", 0))

SetTxStatus(m, status) ==
    Call([m EXCEPT !.ep0.StatTx = status], Op("SetTxStatus:" \o status, 0))

SetRxStatus(m, status) ==
    Call([m EXCEPT !.ep0.StatRx = status], Op("SetRxStatus:" \o status, 0))

\* _Ep0::Writer::SendData(data, size): copies size bytes from data into the
\* transmit buffer and makes the transmit direction Valid.  A byte read past
\* the end of data is indeterminate (-1).
SendData(m, data, size) ==
    Call([m EXCEPT
            !.ep0.TxBuffer =
                [i \in 1 .. size |-> IF i <= Len(data) THEN data[i] ELSE -1],
            !.ep0.StatTx = "Valid",
            !.hist.txOwner = "other"],
         Op("SendData", size))

\* _Ep0::Reset(): the endpoint goes back to receive Valid, transmit Nak.
\* Whether the completion flags survive it is not fixed by this code.
Ep0Reset(m, ctrKept) ==
    Call([m EXCEPT
            !.ep0.StatRx = "Valid",
            !.ep0.StatTx = "Nak",
            !.ep0.TxBuffer = <<>>,
            !.ep0.CTR_RX = @ /\ ctrKept,
            !.ep0.CTR_TX = @ /\ ctrKept,
            !.hist.txOwner = "none",
            !.hist.ctrTxOwner = IF ctrKept THEN @ ELSE "none"],
         Op("Ep0::Reset", 0))

\* (_Configurations::Reset(), ...): one call per configuration, in order
RECURSIVE ConfigurationsReset(_, _, _)
ConfigurationsReset(m, i, ctrKept) ==
    IF i > m.dev.NumConfigurations THEN m
    ELSE ConfigurationsReset(
            Call([m EXCEPT !.ep1Ctr = @ /\ ctrKept],
                 Op("Configuration::Reset", i)),
            i + 1, ctrKept)

(***************************************************************************)
(* The interrupt status register, as the handlers read it.                 *)
(***************************************************************************)
IstrReset(m) == m.regs.ISTR_RESET

\* USB_ISTR_CTR: some endpoint has a completed transfer pending
IstrCtr(m) == m.ep0.CTR_RX \/ m.ep0.CTR_TX \/ m.ep1Ctr

\* USB_ISTR_EP_ID: the endpoint with the pending transfer (lowest first)
IstrEpId(m) == IF m.ep0.CTR_RX \/ m.ep0.CTR_TX THEN 0 ELSE 1

(***************************************************************************)
(* DeviceBase::Reset                                                       *)
(***************************************************************************)
\* Reset writing DADDR before the endpoint and the configurations are reset
Reset_DaddrFirst(m, ctrKept) ==
    LET m1 == Call([m EXCEPT !.regs.CNTR = CntrBaseline], Op("CNTR", 0))
        m2 == Call([m1 EXCEPT !.regs.ISTR_RESET = FALSE], Op("ISTR", 0))
        m3 == Call([m2 EXCEPT !.regs.DADDR = USB_DADDR_EF],
                   Op("DADDR", USB_DADDR_EF))
        m4 == Ep0Reset(m3, ctrKept)
        m5 == ConfigurationsReset(m4, 1, ctrKept)
    IN  Call([m5 EXCEPT !.regs.BTABLE = 0,
                        !.hist.tempStale = (m.Temp # 0),
                        !.hist.daddrStale = FALSE], Op("BTABLE", 0))

Reset(m, ctrKept) ==
    LET m1 == Call([m EXCEPT !.regs.CNTR = CntrBaseline], Op("CNTR", 0))
        m2 == Call([m1 EXCEPT !.regs.ISTR_RESET = FALSE], Op("ISTR", 0))
        m3 == Ep0Reset(m2, ctrKept)
        m4 == ConfigurationsReset(m3, 1, ctrKept)
        m5 == Call([m4 EXCEPT !.regs.BTABLE = 0], Op("BTABLE", 0))
    IN  Call([m5 EXCEPT !.regs.DADDR = USB_DADDR_EF,
                        !.hist.tempStale = (m.Temp # 0),
                        !.hist.daddrStale = FALSE],
             Op("DADDR", USB_DADDR_EF))


(***************************************************************************)
(* DeviceBase::Handler (endpoint 0).                                       *)
(***************************************************************************)
\* GetDescriptor answering an unsupported type with an empty packet
GetDescriptorCase_NoStall(m, setup) ==
    CASE setup.Value = DeviceDescriptorParam ->
            SendData(m, DescriptorBytes(FillDescriptor(m.dev)),
                     IF setup.Length < DeviceDescriptorSize
                     THEN setup.Length ELSE DeviceDescriptorSize)
      [] setup.Value = ConfigurationDescriptorParam ->
            SendData(m, ScratchBuffer(m.dev),
                     IF setup.Length < m.dev.ConfigDescriptorSize
                     THEN setup.Length ELSE m.dev.ConfigDescriptorSize)
      [] setup.Value = HidReportDescriptorParam ->
            SendData(m, HidReportData(m.dev),
                     IF setup.Length < m.dev.HidReportSize
                     THEN setup.Length ELSE m.dev.HidReportSize)
      [] OTHER -> SendData(m, <<>>, 0)

\* case GetDescriptor: the inner switch on setup->Value
GetDescriptorCase(m, setup) ==
    CASE setup.Value = DeviceDescriptorParam ->
            LET tempDeviceDescriptor == FillDescriptor(m.dev)
            IN  SendData(m, DescriptorBytes(tempDeviceDescriptor),
                         IF setup.Length < DeviceDescriptorSize
                         THEN setup.Length ELSE DeviceDescriptorSize)
      [] setup.Value = ConfigurationDescriptorParam ->
            LET temp == ScratchBuffer(m.dev)
                size == m.dev.ConfigDescriptorSize
            IN  SendData(m, temp,
                         IF setup.Length < size THEN setup.Length ELSE size)
      [] setup.Value = HidReportDescriptorParam ->
            LET size == m.dev.HidReportSize
            IN  SendData(m, HidReportData(m.dev),
                         IF setup.Length < size THEN setup.Length ELSE size)
      [] OTHER -> SetTxStatus(m, "Stall")

\* the SetAddress case keeping all 16 bits of wValue
SetAddressCase_NoTruncation(m, setup) ==
    LET m1 == [m EXCEPT !.Temp = setup.Value]
        m2 == SendData(Call(m1, Op("TempAddressStorage", m1.Temp)), <<>>, 0)
    IN  [m2 EXCEPT !.hist.txOwner = "SetAddress",
                   !.hist.saPending = TRUE,
                   !.hist.saWait = TRUE,
                   !.hist.tempStale = FALSE,
                   !.hist.ctrTxOwner = IF @ = "none" THEN "none" ELSE "other"]

\* case SetAddress: TempAddressStorage = setup->Value (uint16_t to uint8_t)
SetAddressCase(m, setup) ==
    LET m1 == [m EXCEPT !.Temp = setup.Value % 256]
        m2 == SendData(Call(m1, Op("TempAddressStorage", m1.Temp)), <<>>, 0)
    IN  [m2 EXCEPT !.hist.txOwner = "SetAddress",
                   !.hist.saPending = TRUE,
                   !.hist.saWait = TRUE,
                   !.hist.tempStale = FALSE,
                   !.hist.ctrTxOwner = IF @ = "none" THEN "none" ELSE "other"]

\* case SetConfiguration has no break: control falls into default
SetConfigurationCase(m, setup) ==
    SetTxStatus(SendData(m, <<>>, 0), "Stall")

\* switch (setup->Request)
SetupCase(m) ==
    LET setup == m.ep0.RxBuffer
    IN  CASE setup.Request = GetStatus -> SendData(m, LE16(0), 2)
          [] setup.Request = SetAddress -> SetAddressCase(m, setup)
          [] setup.Request = GetDescriptor -> GetDescriptorCase(m, setup)
          [] setup.Request = SetConfiguration -> SetConfigurationCase(m, setup)
          [] OTHER -> SetTxStatus(m, "Stall")

\* the receive branch decoding the buffer whether or not SETUP is set
HandlerRx_IgnoresSetupFlag(m) ==
    IF ~m.ep0.CTR_RX THEN m
    ELSE LET m1 == ClearCtrRx(m)
             m2 == SetupCase([m1 EXCEPT !.hist.rx = IF m1.ep0.SETUP
                                                    THEN "setup" ELSE "out"])
         IN  SetRxStatus(m2, "Valid")

\* if (Reg & USB_EP_CTR_RX) { ... }
HandlerRx(m) ==
    IF ~m.ep0.CTR_RX THEN m
    ELSE LET m1 == ClearCtrRx(m)
             m2 == IF m1.ep0.SETUP
                   THEN SetupCase([m1 EXCEPT !.hist.rx = "setup"])
                   ELSE [m1 EXCEPT !.hist.rx = "out"]
         IN  SetRxStatus(m2, "Valid")

\* the address commit without the reset of TempAddressStorage
CommitAddress_KeepsPending(m) ==
    LET v == USB_DADDR_EF + (m.Temp % (USB_DADDR_ADD + 1))
    IN  Call([m EXCEPT !.regs.DADDR = v,
                       !.hist.daddrStale = m.hist.tempStale,
                       !.hist.commit = IF m.hist.ctrTxOwner = "SetAddress"
                                       THEN "own" ELSE "early"],
             Op("DADDR", v))

\* DADDR = USB_DADDR_EF | (TempAddressStorage & USB_DADDR_ADD)
CommitAddress(m) ==
    LET v == USB_DADDR_EF + (m.Temp % (USB_DADDR_ADD + 1))
    IN  Call([m EXCEPT !.regs.DADDR = v,
                       !.Temp = 0,
                       !.hist.daddrStale = m.hist.tempStale,
                       !.hist.tempStale = FALSE,
                       !.hist.commit = IF m.hist.ctrTxOwner = "SetAddress"
                                       THEN "own" ELSE "early"],
             Op("DADDR", v))

\* the transmit branch leaving CTR_TX set
HandlerTx_KeepsFlag(m) ==
    IF ~m.ep0.CTR_TX THEN m
    ELSE LET m1 == [m EXCEPT !.hist.tx = TRUE,
                             !.hist.firstTx = m.hist.saWait,
                             !.hist.saWait = FALSE]
             m2 == IF m1.Temp # 0 THEN CommitAddress(m1) ELSE m1
             m3 == [m2 EXCEPT
                      !.hist.saPending =
                          IF m.hist.ctrTxOwner = "SetAddress" THEN FALSE ELSE @,
                      !.hist.ownTx = (m.hist.ctrTxOwner = "SetAddress"),
                      !.hist.ctrTxOwner = "none"]
         IN  SetRxStatus(m3, "Valid")

\* if (Reg & USB_EP_CTR_TX) { ... }
HandlerTx(m) ==
    IF ~m.ep0.CTR_TX THEN m
    ELSE LET m1 == ClearCtrTx([m EXCEPT !.hist.tx = TRUE,
                                        !.hist.firstTx = m.hist.saWait,
                                        !.hist.saWait = FALSE])
             m2 == IF m1.Temp # 0 THEN CommitAddress(m1) ELSE m1
             m3 == [m2 EXCEPT
                      !.hist.saPending =
                          IF m.hist.ctrTxOwner = "SetAddress" THEN FALSE ELSE @,
                      !.hist.ownTx = (m.hist.ctrTxOwner = "SetAddress"),
                      !.hist.ctrTxOwner = "none"]
         IN  SetRxStatus(m3, "Valid")

\* Handler serving the transmit completion before the receive completion
Handler_TxFirst(m) ==
    LET m0 == [m EXCEPT !.hist.ran = TRUE,
                        !.hist.pre = [DADDR |-> m.regs.DADDR, Temp |-> m.Temp,
                                      StatTx |-> m.ep0.StatTx]]
        m1 == HandlerTx(m0)
        m2 == HandlerRx(m1)
    IN  [m2 EXCEPT !.hist.mid = [DADDR |-> m2.regs.DADDR, Temp |-> m2.Temp,
                                 StatTx |-> m2.ep0.StatTx]]

Handler(m) ==
    LET m0 == [m EXCEPT !.hist.ran = TRUE,
                        !.hist.pre = [DADDR |-> m.regs.DADDR, Temp |-> m.Temp,
                                      StatTx |-> m.ep0.StatTx]]
        m1 == HandlerRx(m0)
        m2 == [m1 EXCEPT !.hist.mid = [DADDR |-> m1.regs.DADDR,
                                       Temp |-> m1.Temp,
                                       StatTx |-> m1.ep0.StatTx]]
    IN  HandlerTx(m2)

(***************************************************************************)
(* EpHandlers::Handle and DeviceBase::CommonHandler.                       *)
(***************************************************************************)
\* the handler of another endpoint: it consumes that endpoint's completion
OtherEndpointHandler(m) ==
    Call([m EXCEPT !.ep1Ctr = FALSE], Op("Endpoint::Handler", 1))

\* EpHandlers::Handle(endpoint, direction): endpoint 0 is served by This
Handle(m, endpoint) ==
    IF endpoint = 0 THEN Handler(Call(m, Op("Handle", 0)))
    ELSE OtherEndpointHandler(Call(m, Op("Handle", endpoint)))

NVIC_ClearPendingIRQ(m) ==
    Call([m EXCEPT !.sys.irqPending = FALSE], Op("NVIC_ClearPendingIRQ", 0))

\* CommonHandler acknowledging the interrupt only after a dispatch
CommonHandler_AckInBranch(m, ctrKept) ==
    LET m1 == IF IstrReset(m) THEN Reset(Call(m, Op("Reset", 0)), ctrKept)
              ELSE m
    IN  IF IstrCtr(m1)
        THEN NVIC_ClearPendingIRQ(
                Handle(Call(m1, Op("Pc7::Toggle", 0)), IstrEpId(m1)))
        ELSE m1

CommonHandler(m, ctrKept) ==
    LET m1 == IF IstrReset(m) THEN Reset(Call(m, Op("Reset", 0)), ctrKept)
              ELSE m
        m2 == IF IstrCtr(m1)
              THEN Handle(Call(m1, Op("Pc7::Toggle", 0)), IstrEpId(m1))
              ELSE m1
    IN  NVIC_ClearPendingIRQ(m2)

(***************************************************************************)
(* DeviceBase::Enable                                                      *)
(***************************************************************************)
\* Enable enabling the interrupt line before the buffer manager is set up
Enable_IrqFirst(m) ==
    LET m1 == Call([m EXCEPT !.sys.clock = TRUE], Op("ClockCtrl::Enable", 0))
        m2 == Call([m1 EXCEPT !.sys.irqEnabled = TRUE],
                   Op("NVIC_EnableIRQ", 0))
        m3 == Call([m2 EXCEPT !.sys.epBufInits = @ + 1],
                   Op("EpBufferManager::Init", 0))
        m4 == Call([m3 EXCEPT !.regs.CNTR = CntrBaseline], Op("CNTR", 0))
        m5 == Call([m4 EXCEPT !.regs.ISTR_RESET = FALSE], Op("ISTR", 0))
    IN  Call([m5 EXCEPT !.regs.BTABLE = 0], Op("BTABLE", 0))

Enable(m) ==
    LET m1 == Call([m EXCEPT !.sys.clock = TRUE], Op("ClockCtrl::Enable", 0))
        m2 == Call([m1 EXCEPT !.sys.epBufInits = @ + 1],
                   Op("EpBufferManager::Init", 0))
        m3 == Call([m2 EXCEPT !.regs.CNTR = CntrBaseline], Op("CNTR", 0))
        m4 == Call([m3 EXCEPT !.regs.ISTR_RESET = FALSE], Op("ISTR", 0))
        m5 == Call([m4 EXCEPT !.regs.BTABLE = 0], Op("BTABLE", 0))
    IN  Call([m5 EXCEPT !.sys.irqEnabled = TRUE], Op("NVIC_EnableIRQ", 0))

(***************************************************************************)
(* The history kept for the properties; it is not program state.           *)
(***************************************************************************)
NoSnapshot == [DADDR |-> 0, Temp |-> 0, StatTx |-> "Disabled"]

\* the part of the history that describes one Handler invocation
FreshInvocation(h, action) ==
    [h EXCEPT !.last = action, !.ran = FALSE, !.rx = "none", !.tx = FALSE,
              !.ownTx = FALSE, !.firstTx = FALSE, !.commit = "none",
              !.pre = NoSnapshot, !.mid = NoSnapshot]

Begin(action) == [Machine EXCEPT !.calls = <<>>,
                                 !.hist = FreshInvocation(hist, action)]

(***************************************************************************)
(* Initial state: the peripheral after power-up, the device not enabled.   *)
(***************************************************************************)
DeviceInit ==
    /\ dev \in DeviceInstances
    /\ regs = [CNTR |-> CntrPowerUp, ISTR_RESET |-> FALSE,
               BTABLE |-> 0, DADDR |-> 0]
    /\ ep0 = [CTR_RX |-> FALSE, CTR_TX |-> FALSE, SETUP |-> FALSE,
              StatTx |-> "Disabled", StatRx |-> "Disabled",
              RxBuffer |-> NoPacket, TxBuffer |-> <<>>]
    /\ TempAddressStorage = 0
    /\ ep1Ctr = FALSE
    /\ sys = [clock |-> FALSE, epBufInits |-> 0,
              irqEnabled |-> FALSE, irqPending |-> FALSE]
    /\ calls = <<>>
    /\ hist = [last |-> "Init", ran |-> FALSE, rx |-> "none", tx |-> FALSE,
               ownTx |-> FALSE, firstTx |-> FALSE, commit |-> "none",
               pre |-> NoSnapshot, mid |-> NoSnapshot,
               txOwner |-> "none", ctrTxOwner |-> "none",
               saPending |-> FALSE, saWait |-> FALSE,
               tempStale |-> FALSE, daddrStale |-> FALSE]

Init ==
    /\ DeviceInit
    /\ io = IoIdle

(***************************************************************************)
(* Actions of the program.                                                 *)
(***************************************************************************)
DoEnable ==
    /\ ~sys.irqEnabled
    /\ Install(Enable(Begin("Enable")))

\* the interrupt entry; it may also be entered with no status flag set
DoCommonHandler ==
    /\ sys.irqEnabled
    /\ \E ctrKept \in BOOLEAN :
          Install(CommonHandler(Begin("CommonHandler"), ctrKept))

(***************************************************************************)
(* Actions of the peripheral (the host's traffic as the hardware reports   *)
(* it).  The function answers only while DADDR's enable bit is set and no  *)
(* bus reset is pending.                                                   *)
(***************************************************************************)
Active == sys.irqEnabled /\ regs.DADDR >= USB_DADDR_EF /\ ~regs.ISTR_RESET

\* a SETUP transaction with a packet of the set packets completes on
\* endpoint 0; a packet still staged for transmission is dropped
HwSetupFrom(packets) ==
    /\ Active
    /\ ~ep0.CTR_RX
    /\ \E p \in packets :
          Install([Begin("HwSetup") EXCEPT
                      !.ep0.RxBuffer = p,
                      !.ep0.CTR_RX = TRUE,
                      !.ep0.SETUP = TRUE,
                      !.ep0.StatRx = "Nak",
                      !.ep0.StatTx = "Nak",
                      !.ep0.TxBuffer = <<>>,
                      !.hist.txOwner = "none",
                      !.sys.irqPending = TRUE])

HwSetup == HwSetupFrom(ProtocolPackets)

HwSetupDescriptor == HwSetupFrom(DescriptorPackets)

\* an OUT transaction (not SETUP) completes on endpoint 0
HwOut ==
    /\ Active
    /\ ep0.StatRx = "Valid"
    /\ ~ep0.CTR_RX
    /\ Install([Begin("HwOut") EXCEPT
                   !.ep0.CTR_RX = TRUE,
                   !.ep0.SETUP = FALSE,
                   !.ep0.StatRx = "Nak",
                   !.sys.irqPending = TRUE])

\* an IN transaction completes on endpoint 0: the staged packet was sent
HwIn ==
    /\ Active
    /\ ep0.StatTx = "Valid"
    /\ ~ep0.CTR_TX
    /\ Install([Begin("HwIn") EXCEPT
                   !.ep0.CTR_TX = TRUE,
                   !.ep0.StatTx = "Nak",
                   !.ep0.TxBuffer = <<>>,
                   !.hist.ctrTxOwner = hist.txOwner,
                   !.hist.txOwner = "none",
                   !.sys.irqPending = TRUE])

\* a transfer completes on another endpoint
HwOtherEndpoint ==
    /\ Active
    /\ ~ep1Ctr
    /\ Install([Begin("HwOtherEndpoint") EXCEPT
                   !.ep1Ctr = TRUE,
                   !.sys.irqPending = TRUE])

\* the host resets the bus
HwBusReset ==
    /\ sys.irqEnabled
    /\ ~regs.ISTR_RESET
    /\ Install([Begin("HwBusReset") EXCEPT
                   !.regs.ISTR_RESET = TRUE,
                   !.sys.irqPending = TRUE])

Next ==
    \/ DoEnable
    \/ DoCommonHandler
    \/ HwSetup
    \/ HwOut
    \/ HwIn
    \/ HwOtherEndpoint
    \/ HwBusReset

Spec == Init /\ [][Next]_vars

\* the same device, the host sending the requests answered with a payload
NextDescriptors ==
    \/ DoEnable
    \/ DoCommonHandler
    \/ HwSetupDescriptor
    \/ HwOut
    \/ HwIn
    \/ HwBusReset

SpecDescriptors == Init /\ [][NextDescriptors]_vars

(***************************************************************************)
(* The register wrappers in use: a program calling the static functions of *)
(* one instantiation in any order.  The device is not enabled meanwhile.   *)
(***************************************************************************)
InitRegisters ==
    /\ DeviceInit
    /\ dev = CHOOSE d \in DeviceInstances : d.NumConfigurations = 2
    /\ io \in RegisterStarts

\* values of the argument type DataT
ArgValues ==
    IF io.dt = "bool" THEN {0, 1}
    ELSE IF io.kind = "IoReg" THEN Patterns ELSE Samples

\* the register after a write: what was written, and what was there before
Written(r, op, value) ==
    [r EXCEPT !.before = io.reg, !.arg = value, !.last = op,
              !.same = (op = "Set" /\ io.last = "Set" /\ io.arg = value),
              !.seen = NoRead]

\* the register after a read: what the read returned
Read(what, bit, result) ==
    [io EXCEPT !.seen = [what |-> what, bit |-> bit, result |-> result]]

BoolInt(b) == IF b THEN 1 ELSE 0

DoSet ==
    /\ io.kind # "none"
    /\ \E value \in ArgValues :
          io' = Written(CASE io.kind = "NullReg" -> NullRegSet(io, value)
                          [] io.kind = "IoReg" -> IoRegSet(io, value)
                          [] io.kind = "IoBitfield" -> IoBitfieldSet(io, value)
                          [] OTHER -> IO_BITFIELD_WRAPPER_Set(io, value),
                        "Set", value)
    /\ UNCHANGED deviceVars

DoOr ==
    /\ io.kind \in {"NullReg", "IoReg"}
    /\ \E value \in ArgValues :
          io' = Written(IF io.kind = "NullReg" THEN NullRegOr(io, value)
                        ELSE IoRegOr(io, value), "Or", value)
    /\ UNCHANGED deviceVars

DoAnd ==
    /\ io.kind \in {"NullReg", "IoReg"}
    /\ \E value \in ArgValues :
          io' = Written(IF io.kind = "NullReg" THEN NullRegAnd(io, value)
                        ELSE IoRegAnd(io, value), "And", value)
    /\ UNCHANGED deviceVars

DoXor ==
    /\ io.kind \in {"NullReg", "IoReg"}
    /\ \E value \in ArgValues :
          io' = Written(IF io.kind = "NullReg" THEN NullRegXor(io, value)
                        ELSE IoRegXor(io, value), "Xor", value)
    /\ UNCHANGED deviceVars

DoAndOr ==
    /\ io.kind \in {"NullReg", "IoReg"}
    /\ \E andMask \in ArgValues, orMask \in ArgValues :
          io' = Written(IF io.kind = "NullReg"
                        THEN NullRegAndOr(io, andMask, orMask)
                        ELSE IoRegAndOr(io, andMask, orMask),
                        "AndOr", orMask)
    /\ UNCHANGED deviceVars

DoGet ==
    /\ io.kind # "none"
    /\ io' = Read("Get", 0,
                  CASE io.kind = "NullReg" -> NullRegGet(io)
                    [] io.kind = "IoReg" -> IoRegGet(io)
                    [] io.kind = "IoBitfield" -> IoBitfieldGet(io)
                    [] OTHER -> IO_BITFIELD_WRAPPER_Get(io))
    /\ UNCHANGED deviceVars

DoIsBitSet ==
    /\ io.kind \in {"NullReg", "IoReg"}
    /\ \E bit \in 0 .. RegWidth - 1 :
          io' = Read("IsBitSet", bit,
                     BoolInt(IF io.kind = "NullReg"
                             THEN NullRegIsBitSet(io, bit)
                             ELSE IoRegBitIsSet(io, bit)))
    /\ UNCHANGED deviceVars

DoIsBitClear ==
    /\ io.kind \in {"NullReg", "IoReg"}
    /\ \E bit \in 0 .. RegWidth - 1 :
          io' = Read("IsBitClear", bit,
                     BoolInt(IF io.kind = "NullReg"
                             THEN NullRegIsBitClear(io, bit)
                             ELSE IoRegBitIsClear(io, bit)))
    /\ UNCHANGED deviceVars

NextRegisters ==
    \/ DoSet
    \/ DoOr
    \/ DoAnd
    \/ DoXor
    \/ DoAndOr
    \/ DoGet
    \/ DoIsBitSet
    \/ DoIsBitClear

SpecRegisters == InitRegisters /\ [][NextRegisters]_vars


(***************************************************************************)
(* Properties.                                                             *)
(***************************************************************************)
\* positions of the entry e in the calls of the last invocation
Positions(e) == { i \in 1 .. Len(calls) : calls[i] = e }

\* positions of the calls of the operation name, whatever the argument
PositionsOf(name) == { i \in 1 .. Len(calls) : calls[i].op = name }

\* the state is the one CommonHandler returned in
AfterCommonHandler == hist.last = "CommonHandler"

\* ... and Handler ran in that invocation
AfterHandler == AfterCommonHandler /\ hist.ran

\* ... and its receive branch handled the SETUP packet in RxBuffer
HandledSetup == AfterHandler /\ hist.rx = "setup"

setup == ep0.RxBuffer

IsStandard(r) == setup.Type = "Standard" /\ setup.Request = r

\* C1: a SetAddress SETUP leaves DADDR as it was, after the acknowledgment
\* and when Handler returns; DADDR takes the address only when the
\* transmit-complete of the status stage of that transfer is handled.
C1_AddressDeferred ==
    /\ (HandledSetup /\ IsStandard(SetAddress))
          => /\ hist.mid.DADDR = hist.pre.DADDR
             /\ regs.DADDR = hist.pre.DADDR
    /\ (AfterHandler /\ hist.commit # "none") => hist.commit = "own"

\* C2: after a SetAddress(addr) SETUP, addr in 0..127, and the following
\* transmit-complete have been handled, the address field of DADDR is addr.
C2_AddressApplied ==
    (AfterHandler /\ hist.firstTx /\ IsStandard(SetAddress)
        /\ setup.Value \in 0 .. USB_DADDR_ADD)
      => regs.DADDR % (USB_DADDR_ADD + 1) = setup.Value

C4_SetConfigurationAck ==
    (HandledSetup /\ IsStandard(SetConfiguration))
      => /\ Positions(Op("SendData", 0)) # {}
         /\ ep0.TxBuffer = <<>>
         /\ ep0.StatTx = "Valid"

\* C5: a GetDescriptor of a type other than Device, Configuration and
\* HidReport stages nothing, leaves the transmit status Stall and returns
\* with the receive status Valid.
C5_UnsupportedDescriptor ==
    (HandledSetup /\ setup.Request = GetDescriptor
        /\ setup.Value \notin {DeviceDescriptorParam,
                               ConfigurationDescriptorParam,
                               HidReportDescriptorParam})
      => /\ PositionsOf("SendData") = {}
         /\ ep0.TxBuffer = <<>>
         /\ ep0.StatTx = "Stall"
         /\ ep0.StatRx = "Valid"

\* C5 witness: a string descriptor was requested and refused
C5_Witness ==
    /\ HandledSetup /\ setup.Request = GetDescriptor
    /\ setup.Value = StringDescriptorParam /\ setup.Length = 64
    /\ ep0.StatTx = "Stall" /\ ep0.StatRx = "Valid"

\* the request is not one of the four standard requests Handler answers
IsOtherRequest ==
    \/ setup.Type # "Standard"
    \/ setup.Request \notin {GetStatus, SetAddress, GetDescriptor,
                             SetConfiguration}

\* C6: every other request, standard or not, is stalled: no data is staged
\* and the request changes neither TempAddressStorage nor DADDR.
C6_OtherRequestsStalled ==
    (HandledSetup /\ IsOtherRequest)
      => /\ ep0.StatTx = "Stall"
         /\ PositionsOf("SendData") = {}
         /\ hist.mid.Temp = hist.pre.Temp
         /\ hist.mid.DADDR = hist.pre.DADDR

\* the size of the payload of the request in RxBuffer (-1: no payload)
PayloadSize ==
    IF setup.Request = GetStatus THEN 2
    ELSE IF setup.Request # GetDescriptor THEN -1
    ELSE IF setup.Value = DeviceDescriptorParam THEN DeviceDescriptorSize
    ELSE IF setup.Value = ConfigurationDescriptorParam
         THEN dev.ConfigDescriptorSize
    ELSE IF setup.Value = HidReportDescriptorParam THEN dev.HidReportSize
    ELSE -1

\* C7: the number of bytes given to the endpoint-0 writer for a request
\* answered with a payload is min(requested length, payload size).
C7_LengthClamped ==
    (HandledSetup /\ PayloadSize >= 0)
      => \A i \in PositionsOf("SendData") :
            calls[i].arg = Min(setup.Length, PayloadSize)

\* the 18 bytes of the device descriptor of the instantiation
ExpectedDeviceBytes ==
    <<18, 1, dev.UsbVersion % 256, dev.UsbVersion \div 256,
      dev.Class, dev.SubClass, dev.Protocol, dev.MaxPacketSize,
      dev.VendorId % 256, dev.VendorId \div 256,
      dev.ProductId % 256, dev.ProductId \div 256,
      dev.DeviceReleaseNumber % 256, dev.DeviceReleaseNumber \div 256,
      0, 0, 0, dev.NumConfigurations>>

\* C8: the response staged for GetDescriptor(Device) with requested length L
\* is the first min(L, 18) bytes of the device descriptor of the
\* instantiation, whenever it is asked for.
C8_DeviceDescriptorBytes ==
    (HandledSetup /\ setup.Request = GetDescriptor
        /\ setup.Value = DeviceDescriptorParam)
      => /\ ep0.StatTx = "Valid"
         /\ ep0.TxBuffer =
               SubSeq(ExpectedDeviceBytes, 1,
                      Min(setup.Length, DeviceDescriptorSize))

\* C8 witness: 64 bytes asked of the device 1234:5678, 18 bytes staged with
\* the ids 34 12 78 56 (hexadecimal) at the offsets 8 to 11
C8_Witness ==
    /\ HandledSetup /\ setup.Request = GetDescriptor
    /\ setup.Value = DeviceDescriptorParam /\ setup.Length = 64
    /\ dev.VendorId = 4660 /\ dev.ProductId = 22136
    /\ Len(ep0.TxBuffer) = 18
    /\ SubSeq(ep0.TxBuffer, 9, 12) = <<52, 18, 120, 86>>

\* Reset() ran in the last CommonHandler invocation
ResetRan == AfterCommonHandler /\ Positions(Op("Reset", 0)) # {}

\* the position of Reset's write of DADDR (the first write of DADDR)
ResetDaddrWrite ==
    CHOOSE i \in PositionsOf("DADDR") :
        \A j \in PositionsOf("DADDR") : i <= j

\* C9: Reset() leaves CNTR at the baseline mask and the interrupt status
\* cleared, and resets endpoint 0 and each configuration exactly once, all
\* of them before it writes DADDR with the enabled-at-address-0 value.
C9_ResetOrder ==
    ResetRan
      => /\ regs.CNTR = CntrBaseline
         /\ ~regs.ISTR_RESET
         /\ PositionsOf("DADDR") # {}
         /\ calls[ResetDaddrWrite] = Op("DADDR", USB_DADDR_EF)
         /\ Cardinality(PositionsOf("Ep0::Reset")) = 1
         /\ \A i \in PositionsOf("Ep0::Reset") : i < ResetDaddrWrite
         /\ Cardinality(PositionsOf("Configuration::Reset"))
               = dev.NumConfigurations
         /\ \A c \in 1 .. dev.NumConfigurations :
               /\ Cardinality(Positions(Op("Configuration::Reset", c))) = 1
               /\ \A i \in Positions(Op("Configuration::Reset", c)) :
                     i < ResetDaddrWrite

\* C9 witness: a device with two configurations went through a bus reset
C9_Witness ==
    /\ ResetRan /\ dev.NumConfigurations = 2
    /\ Positions(Op("Configuration::Reset", 2)) # {}
    /\ regs.DADDR = USB_DADDR_EF

\* C10: every CommonHandler invocation acknowledges the interrupt exactly
\* once, as its last step.
C10_AckOnce ==
    AfterCommonHandler
      => /\ Cardinality(PositionsOf("NVIC_ClearPendingIRQ")) = 1
         /\ calls[Len(calls)].op = "NVIC_ClearPendingIRQ"
         /\ ~sys.irqPending

\* C10 witness: an invocation that ran Reset() and then dispatched to
\* Handler, acknowledged at its end
C10_Witness ==
    /\ AfterCommonHandler
    /\ Positions(Op("Reset", 0)) # {} /\ Positions(Op("Handle", 0)) # {}
    /\ calls[Len(calls)].op = "NVIC_ClearPendingIRQ"

\* positions of the calls and writes made by Reset()
ResetPositions ==
    PositionsOf("Reset") \cup PositionsOf("CNTR") \cup PositionsOf("ISTR")
    \cup PositionsOf("Ep0::Reset") \cup PositionsOf("Configuration::Reset")
    \cup PositionsOf("BTABLE")
    \cup { i \in PositionsOf("DADDR") :
              \E b \in PositionsOf("BTABLE") : i = b + 1 }

\* positions of the dispatch made for the transfer-complete flag
DispatchPositions == PositionsOf("Pc7::Toggle") \cup PositionsOf("Handle")

\* positions of the effects of Handler's receive branch, but its final re-arm
ReceivePositions ==
    PositionsOf("ClearCtrRx") \cup PositionsOf("TempAddressStorage")
    \cup PositionsOf("SendData") \cup PositionsOf("SetTxStatus:Stall")

\* positions of the address commit of Handler's transmit branch
CommitPositions == PositionsOf("DADDR") \ ResetPositions

\* C11: in one CommonHandler invocation everything Reset() does precedes the
\* dispatch made for the transfer-complete flag; in one Handler invocation
\* that serves both completions every receive-side effect (pending address,
\* staged answer or stall, re-arm) precedes the transmit side's address commit.
C11_Order ==
    AfterCommonHandler
      => /\ \A i \in ResetPositions : \A j \in DispatchPositions : i < j
         /\ (hist.rx # "none" /\ hist.tx)
               => /\ \A i \in ReceivePositions :
                        \A j \in PositionsOf("ClearCtrTx") \cup CommitPositions :
                           i < j
                  /\ \A j \in PositionsOf("ClearCtrTx") \cup CommitPositions :
                        \E i \in PositionsOf("SetRxStatus:Valid") : i < j

\* C11 witness: one invocation ran Reset(), then served a SetAddress SETUP
\* and a transmit completion, and committed the address
C11_Witness ==
    /\ ResetRan /\ HandledSetup /\ IsStandard(SetAddress)
    /\ hist.tx /\ CommitPositions # {}
    /\ ReceivePositions # {}

\* C12: a Handler invocation that found a completion flag set returns with
\* both flags clear and the receive status Valid.
C12_Rearmed ==
    (AfterHandler /\ (hist.rx # "none" \/ hist.tx))
      => /\ ~ep0.CTR_RX
         /\ ~ep0.CTR_TX
         /\ ep0.StatRx = "Valid"

\* C12 witness: an OUT completion that was not a SETUP has been served
C12_Witness ==
    /\ AfterHandler /\ hist.rx = "out" /\ ~hist.tx
    /\ PositionsOf("ClearCtrRx") # {}
    /\ ep0.StatRx = "Valid"

\* C13: Enable() enables the clock, initializes the buffer manager once,
\* writes the baseline to CNTR, clears ISTR and BTABLE and only then enables
\* the interrupt line; the line is never enabled with the buffer table
\* uninitialized.
C13_EnableOrder ==
    /\ hist.last = "Enable"
          => /\ calls = <<Op("ClockCtrl::Enable", 0),
                          Op("EpBufferManager::Init", 0),
                          Op("CNTR", 0), Op("ISTR", 0), Op("BTABLE", 0),
                          Op("NVIC_EnableIRQ", 0)>>
             /\ regs.CNTR = CntrBaseline
             /\ ~regs.ISTR_RESET
             /\ regs.BTABLE = 0
             /\ sys.epBufInits = 1
    /\ sys.irqEnabled => (sys.clock /\ sys.epBufInits = 1)

\* C13 witness: Enable() has just returned
C13_Witness ==
    /\ hist.last = "Enable" /\ sys.irqEnabled
    /\ PositionsOf("EpBufferManager::Init") # {}

\* the calls and writes Handler made: the log between the dispatch entry and
\* CommonHandler's closing NVIC_ClearPendingIRQ
HandlerCalls ==
    LET h == CHOOSE i \in PositionsOf("Handle") : TRUE
        c == CHOOSE i \in PositionsOf("NVIC_ClearPendingIRQ") : TRUE
    IN  SubSeq(calls, h + 1, c - 1)

\* C17: a Handler invocation that finds CTR_RX set without SETUP, and CTR_TX
\* clear, stages no response and leaves TempAddressStorage, DADDR and the
\* transmit status as they were; it clears CTR_RX and sets the receive status
\* to Valid and does nothing else.
C17_PlainOut ==
    (AfterHandler /\ hist.rx = "out" /\ ~hist.tx)
      => /\ TempAddressStorage = hist.pre.Temp
         /\ regs.DADDR = hist.pre.DADDR
         /\ ep0.StatTx = hist.pre.StatTx
         /\ PositionsOf("SendData") = {}
         /\ HandlerCalls = <<Op("ClearCtrRx", 0), Op("SetRxStatus:Valid", 0)>>
         /\ ~ep0.CTR_RX
         /\ ep0.StatRx = "Valid"

\* C17 witness: a plain OUT completion was served while an address was
\* pending and a response was staged
C17_Witness ==
    /\ AfterHandler /\ hist.rx = "out" /\ ~hist.tx
    /\ TempAddressStorage # 0
    /\ ep0.StatTx = "Valid"
    /\ HandlerCalls # <<>>

\* C18: the SetAddress case stores wValue modulo 256; the commit writes EF
\* plus the low 7 bits of the stored value to DADDR; once Reset() or a commit
\* has written DADDR its EF bit is set in every later state.
C18_AddressArithmetic ==
    /\ [](/\ (HandledSetup /\ setup.Request = SetAddress)
               => hist.mid.Temp = setup.Value % 256
          /\ (AfterHandler /\ hist.commit # "none")
               => /\ regs.DADDR = USB_DADDR_EF + (hist.mid.Temp % 128)
                  /\ hist.mid.Temp \in 1..255
          /\ (ResetRan \/ (AfterHandler /\ hist.commit # "none"))
               => regs.DADDR \in USB_DADDR_EF..255)
    /\ [][regs.DADDR >= USB_DADDR_EF => regs'.DADDR \in USB_DADDR_EF..255]_vars

\* C18 witness: wValue 133 was stored as 133 and committed as address 5
C18_Witness ==
    /\ AfterHandler /\ hist.commit # "none"
    /\ hist.mid.Temp = 133
    /\ regs.DADDR = USB_DADDR_EF + 5

\* C16: after Reset() the address field of DADDR is 0, and DADDR never takes
\* an address that was requested before the last Reset(): the commit that
\* wrote it used a TempAddressStorage stored by a SetAddress SETUP handled
\* after that Reset().
C16_NoAddressAcrossReset ==
    /\ (ResetRan /\ hist.commit = "none") => regs.DADDR = USB_DADDR_EF
    /\ hist.tempStale => regs.DADDR % (USB_DADDR_ADD + 1) = 0
    /\ ~hist.daddrStale

\* C15: answering GetDescriptor(Configuration), Handler never sends more
\* bytes from the scratch buffer than its capacity of 64, whatever size the
\* composer returned and whatever length the host requested: no byte of the
\* answer is read past the end of the buffer.
C15_ScratchBound ==
    (HandledSetup /\ setup.Request = GetDescriptor
                  /\ setup.Value = ConfigurationDescriptorParam)
      => /\ \A i \in PositionsOf("SendData") : calls[i].arg <= ScratchCapacity
         /\ Len(ep0.TxBuffer) <= ScratchCapacity
         /\ \A i \in 1 .. Len(ep0.TxBuffer) : ep0.TxBuffer[i] # -1

\* C14: whatever was written to a NullReg, with Set, Or, And, Xor or AndOr,
\* Get() returns 0, IsBitSet is false and IsBitClear is true for every bit.
C14_NullRegReadsZero ==
    (io.kind = "NullReg" /\ io.seen.what # "none")
      => CASE io.seen.what = "Get" -> io.seen.result = 0
           [] io.seen.what = "IsBitSet" -> io.seen.result = BoolInt(FALSE)
           [] io.seen.what = "IsBitClear" -> io.seen.result = BoolInt(TRUE)

\* C14 witness: a NullReg was read after all its bits were written as set
C14_Witness ==
    /\ io.kind = "NullReg"
    /\ io.last \in {"Set", "Or", "Xor", "AndOr"}
    /\ io.arg = RegMax
    /\ io.seen.what = "Get"

\* the bitfield of the register content c, and c with the bitfield cleared
Field(c) == (c \div 2^io.off) % 2^io.len

Outside(c) == c - Field(c) * 2^io.off

====
